---- MODULE Spec2Model ----
(***************************************************************************)
(* Model of rezehor.core.ai_client.AIClient (send_message, stream_message, *)
(* __init__) and rezehor.utils.config.get_config.                          *)
(*                                                                         *)
(* Spec / FairSpec : one constructed client serving calls, one at a time.  *)
(* SpecConfig      : several callers constructing AIClient concurrently,   *)
(*                   each going through the lru_cache'd get_config.        *)
(*                                                                         *)
(* Text is a TLA+ string; bytes are 0..255; None is a value no text has.   *)
(***************************************************************************)
EXTENDS Integers, Sequences, FiniteSets, TLC

VARIABLES
    config,         \* self.config.ai of the client serving the calls
    pc,             \* position of the current call
    message,        \* argument: message
    system_prompt,  \* argument: system_prompt (None when not given)
    image_path,     \* argument: image_path (None when not given)
    content,        \* local list `content` of send_message
    transport,      \* spy: the requests the two transport handles received
    response,       \* Message.content returned by messages.create
    exc,            \* exception in flight inside the try block
    result,         \* value returned by send_message
    raised,         \* exception that left the call
    log,            \* loguru entries emitted during the current call
    upstream,       \* what the remote stream will do: fragments and ending
    cursor,         \* position of stream.text_stream in the upstream
    delivered,      \* fragments the consumer received from the generator
    session,        \* the streaming session: "none", "open", "closed"
    consumer,       \* the consumer of the generator: "iterating", "stopped"
    env_key,        \* ANTHROPIC_API_KEY as the environment gives it
    cache,          \* the lru_cache of get_config: None or an instance id
    ctor_runs,      \* number of times Config.__init__ ran
    tpc,            \* per caller: position inside AIClient.__init__
    tcfg,           \* per caller: the Config instance it holds
    clients         \* per caller: api_key of self.client / self.async_client

vars == <<config, pc, message, system_prompt, image_path, content, transport,
          response, exc, result, raised, log, upstream, cursor, delivered,
          session, consumer, env_key, cache, ctor_runs, tpc, tcfg, clients>>

callVars == <<message, system_prompt, image_path, content, transport,
              response, exc, result, raised, log>>
streamVars == <<upstream, cursor, delivered, session, consumer>>
configVars == <<env_key, cache, ctor_runs, tpc, tcfg, clients>>

None == "<None>"

----------------------------------------------------------------------------
(* Bounds and input sets *)

MaxBlocks == 3      \* longest response content sequence
MaxFrags == 3       \* longest upstream fragment sequence
MaxCallers == 3     \* concurrent callers of AIClient()

Messages == {"", "H", "Hi"}
SystemPrompts == {None, "", "S", "Be brief."}

\* The files the environment holds: path -> bytes.  Lengths 0..4 cover every
\* base64 padding case.
ReadablePaths == {"empty.png", "one.png", "two.png", "shot.png", "four.jpg"}
MissingPaths == {"absent.png"}
DeniedPaths == {"locked.png"}
ImagePaths == {None} \cup ReadablePaths \cup MissingPaths \cup DeniedPaths

FileBytes(p) ==
    CASE p = "empty.png" -> <<>>
      [] p = "one.png"   -> <<255>>
      [] p = "two.png"   -> <<77, 97>>
      [] p = "shot.png"  -> <<77, 97, 110>>
      [] p = "four.jpg"  -> <<0, 16, 131, 255>>

\* Errors the remote call can raise
ApiErrors == {"AuthenticationError", "RateLimitError", "APIConnectionError"}

\* Blocks a response can hold: TextBlock and one non-text kind
TextBlock(t) == [type |-> "text", text |-> t]
ToolUseBlock == [type |-> "tool_use"]
ResponseBlocks == {TextBlock(""), TextBlock("A"), TextBlock("B"), ToolUseBlock}

SeqsUpTo(S, n) == UNION {[1..k -> S] : k \in 0..n}

Responses == SeqsUpTo(ResponseBlocks, MaxBlocks)

Fragments == {"Hel", "lo"}
Upstreams ==
    {[frags |-> f, ending |-> e] :
        f \in SeqsUpTo(Fragments, MaxFrags), e \in {"complete"} \cup ApiErrors}

Configs ==
    {[model |-> "claude-sonnet-4-5", max_tokens |-> 4096, temperature |-> "0.7"],
     [model |-> "claude-haiku", max_tokens |-> 1024, temperature |-> "0.0"]}

----------------------------------------------------------------------------
(* base64.b64encode(...).decode() *)

B64Alphabet ==
    <<"A","B","C","D","E","F","G","H","I","J","K","L","M","N","O","P",
      "Q","R","S","T","U","V","W","X","Y","Z","a","b","c","d","e","f",
      "g","h","i","j","k","l","m","n","o","p","q","r","s","t","u","v",
      "w","x","y","z","0","1","2","3","4","5","6","7","8","9","+","/">>

B64Char(n) == B64Alphabet[(n % 64) + 1]

RECURSIVE b64encode(_)
b64encode(bytes) ==
    IF Len(bytes) = 0 THEN ""
    ELSE IF Len(bytes) = 1 THEN
        LET n == bytes[1] * 65536
        IN  B64Char(n \div 262144) \o B64Char(n \div 4096) \o "=="
    ELSE IF Len(bytes) = 2 THEN
        LET n == bytes[1] * 65536 + bytes[2] * 256
        IN  B64Char(n \div 262144) \o B64Char(n \div 4096) \o B64Char(n \div 64) \o "="
    ELSE
        LET n == bytes[1] * 65536 + bytes[2] * 256 + bytes[3]
        IN  B64Char(n \div 262144) \o B64Char(n \div 4096) \o B64Char(n \div 64) \o B64Char(n)
            \o b64encode(SubSeq(bytes, 4, Len(bytes)))

----------------------------------------------------------------------------
(* Helpers shared by send_message and stream_message *)

\* Python truthiness of an Optional[str] / Optional[Path] argument
Truthy(x) == x # None /\ x # ""

DefaultSystem == "You are Rezehor, a helpful AI assistant."

\* system=(system_prompt if system_prompt else "You are Rezehor, ...")
SystemField_EmptyKept(sp) == IF sp # None THEN sp ELSE DefaultSystem
SystemField(sp) == IF Truthy(sp) THEN sp ELSE DefaultSystem

\* keyword arguments of messages.create / messages.stream
Request(cfg, sp, body) ==
    [model |-> cfg.model, max_tokens |-> cfg.max_tokens,
     temperature |-> cfg.temperature, system |-> SystemField(sp),
     messages |-> <<[role |-> "user", content |-> body]>>]

\* the observation variables of a call start empty with each call
NoUpstream == [frags |-> <<>>, ending |-> "complete"]

LogEntry(level, text, arg) == [level |-> level, text |-> text, arg |-> arg]

CallReady ==
    pc \in {"idle", "send_returned", "send_raised", "stream_done",
            "stream_raised", "stream_cancelled", "stream_closed"}

----------------------------------------------------------------------------
(* AIClient.send_message *)

\* open(image_path, "rb"): the OSError it raises, or None
OpenError(p) ==
    IF p \in MissingPaths THEN "FileNotFoundError"
    ELSE IF p \in DeniedPaths THEN "PermissionError"
    ELSE None

ImageBlock(data) ==
    [type |-> "image",
     source |-> [type |-> "base64", media_type |-> "image/png", data |-> data]]

\* the list `content` as built from the arguments
BuildContent_TextFirst(m, ip) ==
    <<TextBlock(m)>>
    \o (IF Truthy(ip) THEN <<ImageBlock(b64encode(FileBytes(ip)))>> ELSE <<>>)
BuildContent(m, ip) ==
    (IF Truthy(ip) THEN <<ImageBlock(b64encode(FileBytes(ip)))>> ELSE <<>>)
    \o <<TextBlock(m)>>

\* where control goes when open() raises: out of send_message
AfterOpenError_Swallowed == "send_built"
AfterOpenError == "send_raised"

\* lines 48-74: build the content list (the image read comes first)
SendMessage_Build(m, sp, ip) ==
    /\ CallReady
    /\ message' = m
    /\ system_prompt' = sp
    /\ image_path' = ip
    /\ transport' = <<>>
    /\ response' = <<>>
    /\ exc' = None
    /\ result' = None
    /\ log' = IF Truthy(ip)
              THEN <<LogEntry("DEBUG", "Including image", ip)>>
              ELSE <<>>
    /\ IF Truthy(ip) /\ OpenError(ip) # None
       THEN /\ pc' = AfterOpenError
            /\ raised' = OpenError(ip)
            /\ content' = <<>>
       ELSE /\ pc' = "send_built"
            /\ raised' = None
            /\ content' = BuildContent(m, ip)
    /\ upstream' = NoUpstream
    /\ cursor' = 0
    /\ delivered' = <<>>
    /\ session' = "none"
    /\ consumer' = "iterating"
    /\ UNCHANGED <<config, configVars>>

\* lines 78-93: the blocking round trip; the remote end answers or raises
SendMessage_Create ==
    /\ pc = "send_built"
    /\ transport' = Append(transport,
                           [via |-> "messages.create",
                            request |-> Request(config, system_prompt, content)])
    /\ \/ \E r \in Responses :
            /\ response' = r
            /\ pc' = "send_responded"
            /\ exc' = exc
       \/ \E e \in ApiErrors :
            /\ exc' = e
            /\ pc' = "send_failed"
            /\ response' = response
    /\ UNCHANGED <<config, message, system_prompt, image_path, content, result,
                   raised, log, streamVars, configVars>>

IsTextBlock(block) == block.type = "text"

\* lines 96-99: result = ""; for block in response.content: ...
RECURSIVE ExtractLoop(_, _, _)
ExtractLoop(blocks, i, acc) ==
    IF i > Len(blocks) THEN acc
    ELSE ExtractLoop(blocks, i + 1,
                     IF IsTextBlock(blocks[i]) THEN acc \o blocks[i].text ELSE acc)

ExtractText_FirstBlock(blocks) ==
    IF Len(blocks) > 0 /\ IsTextBlock(blocks[1]) THEN blocks[1].text ELSE ""
ExtractText(blocks) == ExtractLoop(blocks, 1, "")

\* lines 95-102: extract the text, log its length, return
SendMessage_Extract ==
    /\ pc = "send_responded"
    /\ result' = ExtractText(response)
    /\ log' = Append(log, LogEntry("INFO", "Received response", Len(result')))
    /\ pc' = "send_returned"
    /\ UNCHANGED <<config, message, system_prompt, image_path, content,
                   transport, response, exc, raised, streamVars, configVars>>

\* lines 104-106: except Exception as e: logger.error(...); raise
ErrorToRaise_Wrapped(e) == "RuntimeError"
ErrorToRaise(e) == e

SendMessage_Except ==
    /\ pc = "send_failed"
    /\ log' = Append(log, LogEntry("ERROR", "API call failed", exc))
    /\ raised' = ErrorToRaise(exc)
    /\ pc' = "send_raised"
    /\ UNCHANGED <<config, message, system_prompt, image_path, content,
                   transport, response, exc, result, streamVars, configVars>>

----------------------------------------------------------------------------
(* AIClient.stream_message: an async generator *)

\* calling stream_message(...) creates the generator; no line of it runs yet
StreamMessage_Call(m, sp) ==
    /\ CallReady
    /\ pc' = "stream_created"
    /\ message' = m
    /\ system_prompt' = sp
    /\ image_path' = None
    /\ content' = <<>>
    /\ transport' = <<>>
    /\ response' = <<>>
    /\ exc' = None
    /\ result' = None
    /\ raised' = None
    /\ log' = <<>>
    /\ upstream' = NoUpstream
    /\ cursor' = 0
    /\ delivered' = <<>>
    /\ session' = "none"
    /\ consumer' = "iterating"
    /\ UNCHANGED <<config, configVars>>

\* `async with ... as stream`: __aexit__ closes the session it opened
SessionAfterExit_Leaked(s) == s
SessionAfterExit(s) == IF s = "open" THEN "closed" ELSE s

\* lines 123-134: the first __anext__ enters the try and the async with;
\* __aenter__ sends the request, and the remote end accepts or raises
StreamMessage_Enter ==
    /\ pc = "stream_created"
    /\ consumer = "iterating"
    /\ transport' = Append(transport,
                           [via |-> "messages.stream",
                            request |-> Request(config, system_prompt, message)])
    /\ \/ \E u \in Upstreams :
            /\ upstream' = u
            /\ session' = "open"
            /\ pc' = "stream_iterating"
            /\ UNCHANGED <<log, raised>>
       \/ \E e \in ApiErrors :
            /\ log' = Append(log, LogEntry("ERROR", "Streaming failed", e))
            /\ raised' = ErrorToRaise(e)
            /\ pc' = "stream_raised"
            /\ UNCHANGED <<upstream, session>>
    /\ UNCHANGED <<config, message, system_prompt, image_path, content, response,
                   exc, result, cursor, delivered, consumer, configVars>>

\* the fragment text_stream hands over at position c
NextFragment_Repeated(u, c) == u.frags[1]
NextFragment(u, c) == u.frags[c + 1]

\* lines 135-140: `async for text in stream.text_stream` receives the next
\* fragment and yields it, or the end of the stream, or the stream's error
StreamMessage_Next ==
    /\ pc = "stream_iterating"
    /\ IF cursor < Len(upstream.frags)
       THEN /\ cursor' = cursor + 1
            /\ delivered' = Append(delivered, NextFragment(upstream, cursor))
            /\ pc' = "stream_yielded"
            /\ UNCHANGED <<session, log, raised>>
       ELSE IF upstream.ending = "complete"
       THEN /\ session' = SessionAfterExit(session)
            /\ pc' = "stream_done"
            /\ UNCHANGED <<cursor, delivered, log, raised>>
       ELSE /\ session' = SessionAfterExit(session)
            /\ log' = Append(log, LogEntry("ERROR", "Streaming failed", upstream.ending))
            /\ raised' = ErrorToRaise(upstream.ending)
            /\ pc' = "stream_raised"
            /\ UNCHANGED <<cursor, delivered>>
    /\ UNCHANGED <<config, message, system_prompt, image_path, content, transport,
                   response, exc, result, upstream, consumer, configVars>>

\* the consumer asks for the next fragment: the generator resumes after yield
StreamMessage_Resume ==
    /\ pc = "stream_yielded"
    /\ consumer = "iterating"
    /\ pc' = "stream_iterating"
    /\ UNCHANGED <<config, callVars, streamVars, configVars>>

\* the consumer stops iterating early (break, or dropping the generator)
Consumer_Stop ==
    /\ pc \in {"stream_created", "stream_yielded"}
    /\ consumer = "iterating"
    /\ consumer' = "stopped"
    /\ UNCHANGED <<config, pc, callVars, upstream, cursor, delivered, session,
                   configVars>>

\* aclose() of the abandoned generator (by the consumer or by the event
\* loop's asyncgen finalizer): GeneratorExit is raised at the yield, leaves the
\* async with, and is not an Exception, so line 138 does not catch it
StreamMessage_Aclose ==
    /\ pc \in {"stream_created", "stream_yielded"}
    /\ consumer = "stopped"
    /\ session' = SessionAfterExit(session)
    /\ pc' = "stream_closed"
    /\ UNCHANGED <<config, callVars, upstream, cursor, delivered, consumer,
                   configVars>>

\* the consumer's task is cancelled while the generator awaits the network:
\* CancelledError leaves the async with and is not an Exception either
StreamMessage_Cancel ==
    /\ pc = "stream_iterating"
    /\ session' = SessionAfterExit(session)
    /\ raised' = "CancelledError"
    /\ pc' = "stream_cancelled"
    /\ UNCHANGED <<config, message, system_prompt, image_path, content, transport,
                   response, exc, result, log, upstream, cursor, delivered,
                   consumer, configVars>>

----------------------------------------------------------------------------
(* The constructed client serving calls *)

ConfigIdle ==
    /\ env_key = "sk-ant-key"
    /\ cache = 0
    /\ ctor_runs = 0
    /\ tpc = <<>>
    /\ tcfg = <<>>
    /\ clients = <<>>

Init ==
    /\ config \in Configs
    /\ pc = "idle"
    /\ message = ""
    /\ system_prompt = None
    /\ image_path = None
    /\ content = <<>>
    /\ transport = <<>>
    /\ response = <<>>
    /\ exc = None
    /\ result = None
    /\ raised = None
    /\ log = <<>>
    /\ upstream = NoUpstream
    /\ cursor = 0
    /\ delivered = <<>>
    /\ session = "none"
    /\ consumer = "iterating"
    /\ ConfigIdle

Next ==
    \/ \E m \in Messages, sp \in SystemPrompts, ip \in ImagePaths :
            SendMessage_Build(m, sp, ip)
    \/ SendMessage_Create
    \/ SendMessage_Extract
    \/ SendMessage_Except
    \/ \E m \in Messages, sp \in SystemPrompts : StreamMessage_Call(m, sp)
    \/ StreamMessage_Enter
    \/ StreamMessage_Next
    \/ StreamMessage_Resume
    \/ Consumer_Stop
    \/ StreamMessage_Aclose
    \/ StreamMessage_Cancel

Spec == Init /\ [][Next]_vars

\* asyncio finalizes an abandoned async generator: the loop's asyncgen hook
\* schedules aclose() and runs it
FairSpec == Spec /\ WF_vars(StreamMessage_Aclose)

----------------------------------------------------------------------------
(* get_config and AIClient.__init__, called by several threads *)

Callers == 1..MaxCallers
EnvKeys == {"", "sk-ant-key"}
NoClient == [client |-> None, async_client |-> None]

\* @lru_cache(maxsize=1): look the cached instance up; a miss goes on to call
\* Config()
GetConfig_Lookup(t) ==
    /\ tpc[t] = "start"
    /\ IF cache # 0
       THEN /\ tcfg' = [tcfg EXCEPT ![t] = cache]
            /\ tpc' = [tpc EXCEPT ![t] = "have_config"]
       ELSE /\ tpc' = [tpc EXCEPT ![t] = "constructing"]
            /\ UNCHANGED tcfg
    /\ UNCHANGED <<config, pc, callVars, streamVars, env_key, cache, ctor_runs,
                   clients>>

\* Config.__init__: reads .env and settings.yaml, makes the directories; the
\* file I/O lets other threads run meanwhile
Config_Init(t) ==
    /\ tpc[t] = "constructing"
    /\ ctor_runs' = ctor_runs + 1
    /\ tcfg' = [tcfg EXCEPT ![t] = ctor_runs + 1]
    /\ tpc' = [tpc EXCEPT ![t] = "constructed"]
    /\ UNCHANGED <<config, pc, callVars, streamVars, env_key, cache, clients>>

\* lru_cache after the call: store the result unless another caller's result
\* is cached by now; return this caller's own result either way
GetConfig_Store(t) ==
    /\ tpc[t] = "constructed"
    /\ cache' = IF cache = 0 THEN tcfg[t] ELSE cache
    /\ tpc' = [tpc EXCEPT ![t] = "have_config"]
    /\ UNCHANGED <<config, pc, callVars, streamVars, env_key, ctor_runs, tcfg,
                   clients>>

\* AIClient.__init__ lines 21-29: both transport objects get the configured
\* key, whatever it is (Settings.anthropic_api_key defaults to "")
AIClient_Init(t) ==
    /\ tpc[t] = "have_config"
    /\ clients' = [clients EXCEPT ![t] = [client |-> env_key, async_client |-> env_key]]
    /\ tpc' = [tpc EXCEPT ![t] = "ready"]
    /\ UNCHANGED <<config, pc, callVars, streamVars, env_key, cache, ctor_runs,
                   tcfg>>

InitConfig ==
    /\ config \in Configs
    /\ pc = "idle"
    /\ message = ""
    /\ system_prompt = None
    /\ image_path = None
    /\ content = <<>>
    /\ transport = <<>>
    /\ response = <<>>
    /\ exc = None
    /\ result = None
    /\ raised = None
    /\ log = <<>>
    /\ upstream = NoUpstream
    /\ cursor = 0
    /\ delivered = <<>>
    /\ session = "none"
    /\ consumer = "iterating"
    /\ env_key \in EnvKeys
    /\ cache = 0
    /\ ctor_runs = 0
    /\ tpc = [t \in Callers |-> "start"]
    /\ tcfg = [t \in Callers |-> 0]
    /\ clients = [t \in Callers |-> NoClient]

NextConfig ==
    \E t \in Callers :
        \/ GetConfig_Lookup(t)
        \/ Config_Init(t)
        \/ GetConfig_Store(t)
        \/ AIClient_Init(t)

SpecConfig == InitConfig /\ [][NextConfig]_vars

----------------------------------------------------------------------------
(* Properties *)

ErrorEntries(entries) ==
    Cardinality({i \in 1..Len(entries) : entries[i].level = "ERROR"})

StreamTerminal ==
    pc \in {"stream_done", "stream_raised", "stream_cancelled", "stream_closed"}

InStream == pc \in {"stream_created", "stream_iterating", "stream_yielded"} \/ StreamTerminal

C2_TransportErrorPropagates ==
    (pc = "send_raised" /\ exc # None) =>
        /\ raised = exc
        /\ result = None
        /\ Len(transport) = 1
        /\ ErrorEntries(log) = 1
        /\ log[Len(log)] = [level |-> "ERROR", text |-> "API call failed", arg |-> exc]

C2_Witness ==
    /\ pc = "send_raised"
    /\ exc = "RateLimitError"
    /\ raised = "RateLimitError"
    /\ image_path = "shot.png"

\* C3: an image path that is absent or unreadable makes send_message fail with
\* an OSError before any transport invocation.
C3_UnreadableImageNoTransport ==
    (image_path \in MissingPaths \cup DeniedPaths) =>
        /\ pc = "send_raised"
        /\ raised \in {"FileNotFoundError", "PermissionError"}
        /\ transport = <<>>
        /\ result = None

C3_Witness ==
    /\ pc = "send_raised"
    /\ image_path = "absent.png"
    /\ raised = "FileNotFoundError"
    /\ transport = <<>>

\* base64 of the files, as Python's base64.b64encode gives it
B64Known(p) ==
    CASE p = "empty.png" -> ""
      [] p = "one.png"   -> "/w=="
      [] p = "two.png"   -> "TWE="
      [] p = "shot.png"  -> "TWFu"
      [] p = "four.jpg"  -> "ABCD/w=="

ExpectedContent ==
    IF image_path = None
    THEN <<[type |-> "text", text |-> message]>>
    ELSE <<[type |-> "image",
            source |-> [type |-> "base64", media_type |-> "image/png",
                        data |-> B64Known(image_path)]],
           [type |-> "text", text |-> message]>>

\* C4: the content send_message submits is [Text(message)] without an image
\* path and [Image(base64(file bytes), image/png), Text(message)] with one.
C4_ContentShape ==
    /\ pc = "send_built" => content = ExpectedContent
    /\ \A i \in 1..Len(transport) :
          transport[i].via = "messages.create" =>
              transport[i].request.messages[1].content = ExpectedContent

C4_Witness ==
    /\ Len(transport) = 1
    /\ transport[1].via = "messages.create"
    /\ image_path = "four.jpg"
    /\ message = "Hi"

RECURSIVE JoinTexts(_)
JoinTexts(blocks) ==
    IF blocks = <<>> THEN ""
    ELSE JoinTexts(SubSeq(blocks, 1, Len(blocks) - 1))
         \o (IF blocks[Len(blocks)].type = "text" THEN blocks[Len(blocks)].text ELSE "")

\* C5: the text send_message returns is the concatenation, in order and with
\* no separator, of the text blocks of the response; other blocks add nothing.
C5_TextConcatenated ==
    pc = "send_returned" =>
        /\ result = JoinTexts(response)
        /\ response = <<>> => result = ""
        /\ response = <<[type |-> "text", text |-> "A"], [type |-> "tool_use"],
                        [type |-> "text", text |-> "B"]>> => result = "AB"

C5_Witness ==
    /\ pc = "send_returned"
    /\ response = <<TextBlock("A"), ToolUseBlock, TextBlock("B")>>
    /\ result = "AB"

IsPrefix(s, t) == Len(s) <= Len(t) /\ s = SubSeq(t, 1, Len(s))

\* C6: what stream_message delivered is always a prefix of the upstream
\* fragments and is never retracted; on completion it is all of them and no
\* error is raised; on interruption it is the fragments sent before it, and
\* the error is logged once and raised.
C6_StreamPrefix ==
    /\ [](InStream => IsPrefix(delivered, upstream.frags))
    /\ []((pc = "stream_done") =>
            /\ delivered = upstream.frags
            /\ raised = None
            /\ ErrorEntries(log) = 0)
    /\ []((pc = "stream_raised" /\ session = "closed") =>
            /\ delivered = upstream.frags
            /\ raised = upstream.ending
            /\ ErrorEntries(log) = 1
            /\ log[Len(log)].arg = upstream.ending)
    /\ [][(InStream /\ InStream' /\ pc' # "stream_created")
            => IsPrefix(delivered, delivered')]_vars

C6_Witness ==
    /\ pc = "stream_raised"
    /\ delivered = <<"Hel", "lo">>
    /\ raised = "APIConnectionError"

\* C9 as stated: the system field is the default when no system prompt is
\* given and the caller's value for every value given.
C9_SystemAsGiven ==
    \A i \in 1..Len(transport) :
        transport[i].request.system =
            IF system_prompt = None THEN DefaultSystem ELSE system_prompt

\* C9: the system field is the default when the caller gives no system prompt
\* or an empty one, and the caller's prompt, unchanged, when it is non-empty.
C9_SystemDefaulted ==
    \A i \in 1..Len(transport) :
        transport[i].request.system =
            IF system_prompt = None \/ system_prompt = ""
            THEN "You are Rezehor, a helpful AI assistant."
            ELSE system_prompt

C9_Witness ==
    /\ Len(transport) = 1
    /\ transport[1].via = "messages.stream"
    /\ system_prompt = ""
    /\ transport[1].request.system = DefaultSystem

\* C10: every error that leaves a call was logged exactly once, an image-read
\* failure included.
C10_EveryErrorLoggedOnce ==
    pc \in {"send_raised", "stream_raised"} => ErrorEntries(log) = 1

\* C7: Config is constructed at most once and every caller holds the same
\* instance.
C7_SingleInit ==
    /\ ctor_runs <= 1
    /\ \A t, u \in Callers :
          (tpc[t] = "ready" /\ tpc[u] = "ready") => tcfg[t] = tcfg[u]

\* C8: with an empty credential no transport object is ever created.
C8_EmptyKeyRejected ==
    env_key = "" => \A t \in Callers : clients[t] = NoClient

====
